---- MODULE Spec2Model ----
(***************************************************************************)
(* Streaming text-to-speech pipeline of the EPUB reader.                   *)
(*                                                                         *)
(* Two event loops are modelled: the synthesis worker                      *)
(* (public/kokoro/worker.js) and the page controller (src/app/page.tsx).   *)
(* They share nothing and talk through two FIFO message channels.  Every   *)
(* action is one run-to-completion step of one event loop: a handler (or   *)
(* the continuation of an await) together with all the microtasks it       *)
(* triggers, up to the next suspension point.                              *)
(***************************************************************************)
EXTENDS Integers, Sequences, FiniteSets, TLC

(* ------------------------------ constants ------------------------------ *)

\* worker.js:62
MAX_QUEUE_SIZE == 6

\* Largest number of chunks splitTextSmart yields for a request of the model.
MaxChunks == 7
\* Number of user gestures (play/pause, stop, seek) in the whole program.
MaxOps == 2
\* Number of messages the environment delivers to the worker in SpecWorker.
MaxEnv == 3
\* Number of gestures and worker events together in SpecController.
MaxEvents == 5
\* Longest text given to a text function on its own (SpecText).
MaxTextLen == 5
\* The text being read has TextWords words of WordLen characters; a chunk has
\* ChunkWords such words.
TextWords == 8
WordLen == 4
ChunkWords == 2

\* Number of calls of the progress callback while the model loads, and the
\* progress (in hundredths) it reports: nothing yet, and half.
MaxProgress == 2
\* Number of changes of the text being read.
MaxEdits == 1
LoadProgressValues == {0, 50}

\* The chunk counts of the texts of the model: a single chunk, and more chunks
\* than the channel holds.
ChunkCounts == {1, MaxChunks}

\* The positions (percent) the timeline slider is released at in the model.
SeekValues == {0, 50, 100}
\* The positions the slider is released at under arbitrary worker messages.
ScrubValues == {29, 100}

VARIABLES
  wk,    \* the worker's globals and the tasks of its promise chain
  ui,    \* the controller's refs and React state
  c2w,   \* messages posted by the controller, not yet handled by the worker
  w2c,   \* messages posted by the worker, not yet handled by the controller
  h,     \* history (ghost) record: never read by the modelled code
  tx     \* a text function under test: its arguments and its result

vars == <<wk, ui, c2w, w2c, h, tx>>

Min(a, b) == IF a < b THEN a ELSE b
Max(a, b) == IF a > b THEN a ELSE b

(* --------------------------------- text -------------------------------- *)

\* Strings are sequences of characters; " " is the whitespace character.
IsSpace(ch) == ch = " "

\* A normalized text (normalizeForPlayback: single spaces, trimmed) of `words`
\* words of `len` characters each.
WordsText(words, len) ==
  [j \in 1..(words * (len + 1) - 1) |->
     IF j % (len + 1) = 0 THEN " " ELSE "a"]

\* page.tsx:19-20: sampleText, "Upload an EPUB to get started.", has 30
\* characters; currentText starts with it (line 77).  playQueue is memoized on
\* [ensureAudioContext] alone (line 175), so the currentText it reads at lines
\* 147 and 160 is the one of the first render, sampleText.
SampleTextLen == 30

SampleText ==
  [j \in 1..SampleTextLen |->
     IF j \in {7, 10, 15, 18, 22} THEN " "
     ELSE IF j = SampleTextLen THEN "." ELSE "a"]

\* The text of the chapter of a book.
BookText == WordsText(TextWords, WordLen)

\* A text typed into the text area: a hundred characters without whitespace.
TypedText == [j \in 1..100 |-> "a"]

\* The state keeps currentText (line 77) by name; TextOf gives its characters.
TextOf(name) ==
  CASE name = "sample" -> SampleText
    [] name = "book" -> BookText
    [] name = "typed" -> TypedText
    [] OTHER -> <<>>

\* The text of a chunk (the `text` of a stream_audio_data message).
ChunkText == WordsText(ChunkWords, WordLen)

\* String.prototype.indexOf(" ", from), 0-based, -1 when there is none
IndexOfSpace(text, from) ==
  LET hits == {j \in 0..(Len(text) - 1) : j >= from /\ IsSpace(text[j + 1])}
  IN IF hits = {} THEN -1 ELSE CHOOSE j \in hits : \A k \in hits : j <= k

\* String.prototype.slice(start) for 0 <= start
Slice(text, start) == SubSeq(text, start + 1, Len(text))

\* The end (0-based, exclusive) of the run of characters from i on that are
\* (space = TRUE) or are not (space = FALSE) whitespace.
RECURSIVE RunEnd(_, _, _)
RunEnd(text, i, space) ==
  IF i < Len(text) /\ IsSpace(text[i + 1]) = space
    THEN RunEnd(text, i + 1, space) ELSE i

\* lines 102-107: the exec loop of /(\S+)(\s*)/g from lastIndex i; a match
\* starts at the next non-whitespace character and takes the word and the
\* whitespace after it.
RECURSIVE ExecLoop(_, _, _, _)
ExecLoop(text, i, sum, boundaries) ==
  LET from == RunEnd(text, i, TRUE)
      to == RunEnd(text, RunEnd(text, from, FALSE), TRUE)
  IN IF from >= Len(text) THEN boundaries
     ELSE ExecLoop(text, to, sum + (to - from),
                   Append(boundaries, sum + (to - from)))

\* lines 99-112
getWordBoundaries(text) ==
  LET boundaries == ExecLoop(text, 0, 0, <<0>>)
  IN IF Len(boundaries) = 1 THEN Append(boundaries, Len(text)) ELSE boundaries

(* ----------------------------- text chunker ---------------------------- *)

\* semantic-split.js is not part of the sources; the chunker is the one the
\* specification describes (4.1): it cuts only between whitespace and the
\* word after it, at the last sentence end within the target size, else at
\* the last clause end, else at the last whitespace, else at the first
\* whitespace beyond the target size, and not at all where there is none.
CutPoints(text) ==
  {c \in 1..(Len(text) - 1) : IsSpace(text[c]) /\ ~IsSpace(text[c + 1])}

\* 3 for a cut after a sentence end, 2 after a clause end, 1 otherwise
CutClass(text, c) ==
  LET before == {j \in 1..c : ~IsSpace(text[j])}
      w == CHOOSE j \in before : \A k \in before : j >= k
  IN IF before = {} THEN 1
     ELSE IF text[w] = "." THEN 3
     ELSE IF text[w] = "," THEN 2
     ELSE 1

\* A cut inside the word at the target size (a variant used to test C23)
ChooseCutHard(text, size) == size

ChooseCut(text, size) ==
  LET within == {c \in CutPoints(text) : c <= size}
      best == {c \in within :
                 \A d \in within : CutClass(text, c) >= CutClass(text, d)}
  IN IF within # {} THEN CHOOSE c \in best : \A d \in best : c >= d
     ELSE IF CutPoints(text) # {}
       THEN CHOOSE c \in CutPoints(text) : \A d \in CutPoints(text) : c <= d
     ELSE Len(text)

RECURSIVE splitTextSmart(_, _)
splitTextSmart(text, size) ==
  IF text = <<>> THEN <<>>
  ELSE IF Len(text) <= size THEN <<text>>
  ELSE LET c == ChooseCut(text, size)
       IN <<SubSeq(text, 1, c)>>
            \o splitTextSmart(SubSeq(text, c + 1, Len(text)), size)

(* ------------------------ IEEE 754 double arithmetic ------------------- *)

\* The significand of a double is 53 bits wide.
SignificandBits == 53

\* Large integers are kept as digits of LimbBits bits, most significant
\* first.
LimbBits == 15
Base == 2^LimbBits

RECURSIVE Limbs(_)
Limbs(n) == IF n = 0 THEN <<>> ELSE Append(Limbs(n \div Base), n % Base)

RECURSIVE NatOf(_)
NatOf(b) ==
  IF b = <<>> THEN 0 ELSE Base * NatOf(SubSeq(b, 1, Len(b) - 1)) + b[Len(b)]

Zeros(k) == [j \in 1..k |-> 0]

RECURSIVE Strip(_)
Strip(b) == IF b # <<>> /\ Head(b) = 0 THEN Strip(Tail(b)) ELSE b

\* The number of binary digits of a digit, and of a number without leading
\* zero digits.
DigitLen(v) == CHOOSE k \in 0..LimbBits : v < 2^k /\ (k = 0 \/ v >= 2^(k - 1))
BitLen(b) == IF b = <<>> THEN 0 ELSE (Len(b) - 1) * LimbBits + DigitLen(b[1])

IsOdd(b) == b # <<>> /\ b[Len(b)] % 2 = 1

\* b \div d and b % d for a divisor d below Base (long division)
RECURSIVE DivLoop(_, _, _, _, _)
DivLoop(b, d, j, rem, q) ==
  IF j > Len(b) THEN [q |-> q, rem |-> rem]
  ELSE LET r == Base * rem + b[j]
       IN DivLoop(b, d, j + 1, r % d, Append(q, r \div d))

\* b * k + carry for a factor k below Base
RECURSIVE MulLoop(_, _, _, _, _)
MulLoop(b, k, j, carry, acc) ==
  IF j = 0 THEN Limbs(carry) \o acc
  ELSE LET v == b[j] * k + carry
       IN MulLoop(b, k, j - 1, v \div Base, <<v % Base>> \o acc)

\* b * 2^t
ShiftLeft(b, t) ==
  Strip(MulLoop(b, 2^(t % LimbBits), Len(b), 0, <<>>) \o Zeros(t \div LimbBits))

\* The quotient and remainder r of the digits b[1..kept] by a power of two,
\* as the result of a shift of b: whether a nonzero binary digit was dropped.
Dropped(r, b, kept) ==
  [q |-> Strip(r.q),
   sticky |-> r.rem # 0 \/ \E j \in (kept + 1)..Len(b) : b[j] # 0]

ShiftDigits(b, s, kept) ==
  Dropped(DivLoop(SubSeq(b, 1, kept), 2^(s % LimbBits), 1, 0, <<>>), b, kept)

\* b \div 2^s, and whether a nonzero binary digit was dropped
ShiftRight(b, s) == ShiftDigits(b, s, Max(0, Len(b) - s \div LimbBits))

\* keep, the digits above the guard digit; it goes up when the guard digit is
\* set and more follows or keep is odd.
RoundKept(keep, guard, more, shift) ==
  [m |-> IF guard /\ (more \/ IsOdd(keep))
           THEN Strip(MulLoop(keep, 1, Len(keep), 1, <<>>))
           ELSE keep,
   shift |-> shift]

RoundGuarded(guarded, sticky, shift) ==
  RoundKept(ShiftRight(guarded.q, 1).q, IsOdd(guarded.q),
            guarded.sticky \/ sticky, shift)

\* Round to nearest, ties to even: the number b, followed by a nonzero
\* remainder when sticky, becomes a significand m and the number of binary
\* digits dropped.
RoundToEven(b, sticky) ==
  IF BitLen(b) <= SignificandBits THEN [m |-> b, shift |-> 0]
  ELSE RoundGuarded(ShiftRight(b, BitLen(b) - SignificandBits - 1), sticky,
                    BitLen(b) - SignificandBits)

\* A non-negative double: m * 2^e.  Zero is m = <<>> with e = 0; any other
\* number is kept with an odd m, so that equal numbers are equal records.
Double(m, e) == [m |-> m, e |-> e]

\* The number of binary zeros at the end of a nonzero number.
RECURSIVE TrailingZeros(_)
TrailingZeros(b) ==
  IF b[Len(b)] = 0 THEN LimbBits + TrailingZeros(SubSeq(b, 1, Len(b) - 1))
  ELSE CHOOSE k \in 0..LimbBits :
         b[Len(b)] % 2^k = 0 /\ (b[Len(b)] \div 2^k) % 2 = 1

\* m * 2^e
Canonical(m, e) ==
  IF m = <<>> THEN Double(<<>>, 0)
  ELSE Double(ShiftRight(m, TrailingZeros(m)).q, e + TrailingZeros(m))

\* An integer below 2^31 is a double exactly.
FromInt(n) == Canonical(Limbs(n), 0)

\* The integer a double is when it is one that is written with one digit, and
\* -1 for any other double.
Whole(x) ==
  IF x.m = <<>> THEN 0
  ELSE IF Len(x.m) = 1 /\ x.e \in 0..LimbBits THEN x.m[1] * 2^x.e
  ELSE -1

\* The whole percents, computed once.
MaxPercent == 100
PercentTable == [n \in 0..MaxPercent |-> FromInt(n)]
Percent(n) == IF n \in 0..MaxPercent THEN PercentTable[n] ELSE FromInt(n)

\* The rounded significand rd at exponent e
Normal(rd, e) == Canonical(rd.m, e + rd.shift)

\* a + b and a - b (a >= b) for numbers of the same number of digits
RECURSIVE AddLoop(_, _, _, _, _)
AddLoop(a, b, j, carry, acc) ==
  IF j = 0 THEN Limbs(carry) \o acc
  ELSE LET v == a[j] + b[j] + carry
       IN AddLoop(a, b, j - 1, v \div Base, <<v % Base>> \o acc)

RECURSIVE SubLoop(_, _, _, _, _)
SubLoop(a, b, j, borrow, acc) ==
  IF j = 0 THEN acc
  ELSE LET v == a[j] - b[j] - borrow
       IN SubLoop(a, b, j - 1, IF v < 0 THEN 1 ELSE 0,
                  <<(v + Base) % Base>> \o acc)

Pad(b, n) == Zeros(n - Len(b)) \o b

AddLimbs(a, b) ==
  Strip(AddLoop(Pad(a, Max(Len(a), Len(b))), Pad(b, Max(Len(a), Len(b))),
                Max(Len(a), Len(b)), 0, <<>>))

SubLimbs(a, b) ==
  Strip(SubLoop(Pad(a, Max(Len(a), Len(b))), Pad(b, Max(Len(a), Len(b))),
                Max(Len(a), Len(b)), 0, <<>>))

\* x + y in doubles: the exact sum of the significands at the smaller
\* exponent, rounded
Add(x, y) ==
  IF x.m = <<>> THEN y
  ELSE IF y.m = <<>> THEN x
  ELSE Normal(RoundToEven(AddLimbs(ShiftLeft(x.m, x.e - Min(x.e, y.e)),
                                   ShiftLeft(y.m, y.e - Min(x.e, y.e))),
                          FALSE),
              Min(x.e, y.e))

\* x - y in doubles, for x >= y
Sub(x, y) ==
  IF y.m = <<>> THEN x
  ELSE Normal(RoundToEven(SubLimbs(ShiftLeft(x.m, x.e - Min(x.e, y.e)),
                                   ShiftLeft(y.m, y.e - Min(x.e, y.e))),
                          FALSE),
              Min(x.e, y.e))

\* The quotient and remainder r of a division, rounded
Rounded(r, e) == Normal(RoundToEven(Strip(r.q), r.rem # 0), e)

\* x / d with the significand of x scaled by 2^t first
DivScaled(x, d, t) == Rounded(DivLoop(ShiftLeft(x.m, t), d, 1, 0, <<>>), x.e - t)

\* x / d in doubles, d a positive integer below Base
DivInt(x, d) ==
  IF x.m = <<>> THEN x
  ELSE DivScaled(x, d, SignificandBits + 3 + DigitLen(d) - BitLen(x.m))

\* x * k in doubles, k a non-negative integer below Base
MulInt(x, k) ==
  IF x.m = <<>> \/ k = 0 THEN Double(<<>>, 0)
  ELSE Normal(RoundToEven(Strip(MulLoop(x.m, k, Len(x.m), 0, <<>>)), FALSE),
              x.e)

\* Math.floor
MathFloor(x) ==
  IF x.m = <<>> THEN 0
  ELSE IF x.e >= 0 THEN NatOf(ShiftLeft(x.m, x.e))
  ELSE NatOf(ShiftRight(x.m, -x.e).q)

\* Math.round: halves go up
MathRound(x) ==
  IF x.m # <<>> /\ x.e < 0 /\ IsOdd(ShiftRight(x.m, -x.e - 1).q)
    THEN MathFloor(x) + 1
    ELSE MathFloor(x)

\* Math.min(100, x), for x the integer n or with n = -1
Min100At(x, n) ==
  IF n >= MaxPercent \/ (n = -1 /\ MathFloor(x) >= MaxPercent)
    THEN Percent(MaxPercent)
    ELSE x

Min100(x) == Min100At(x, Whole(x))

\* Math.floor((percent / 100) * length), in doubles: for percent 29 and length
\* 100 this is 28, as 29 / 100 is rounded down.
FloorPercent(percent, length) ==
  MathFloor(MulInt(DivInt(percent, 100), length))

\* FloorPercent for the whole percents and the text lengths of the model,
\* computed once.
TextLengths ==
  (0..MaxTextLen) \cup {SampleTextLen, Len(BookText), Len(TypedText)}

FloorPercentTable ==
  [p \in 0..MaxPercent |->
     [len \in TextLengths |-> FloorPercent(Percent(p), len)]]

\* FloorPercent, from the table when percent is the whole number n
FloorPercentAt(percent, n, length) ==
  IF n \in 0..MaxPercent /\ length \in TextLengths
    THEN FloorPercentTable[n][length]
    ELSE FloorPercent(percent, length)

FloorPercentOf(percent, length) == FloorPercentAt(percent, Whole(percent), length)

(* ------------------------------- messages ------------------------------ *)

\* controller -> worker.  n is the number of chunks the text of a generation
\* request splits into (0 for the other message types).
MsgStop == [type |-> "stop", n |-> 0]
MsgBufferProcessed == [type |-> "buffer_processed", n |-> 0]
MsgText(n) == [type |-> "text", n |-> n]

\* worker -> controller.  req tags the generation request the message belongs
\* to (the code's messages carry no such tag: the controller never reads it);
\* k is the chunk count of chunk_count and the chunk index of an audio unit.
Msg(status, req, k) == [status |-> status, req |-> req, k |-> k]

(* ------------------------- worker: public/kokoro/worker.js ------------- *)

\* The module's top level (lines 1-64) runs before the message listener is
\* registered (line 66).  load is where it stands:
\*   "boot"      awaiting detectWebGPU (line 14)
\*   "loading"   awaiting resolveModelId and KokoroTTS.from_pretrained
\*               (lines 46-56)
\*   "ready"     the model is loaded, the listener is registered
\*   "failed"    from_pretrained rejected (lines 53-56): the module threw, the
\*               listener is never registered
\*   "reported"  as "failed", and the page was told of the uncaught exception
\*
\* A generation request of the promise chain `currentTask`.  Requests are
\* numbered in the order of their text messages; tasks[r] is request r.
\*   n   number of chunks of its text
\*   i   index of the chunk the for-loop is at (0 before the task starts)
\*   pc  "queued"      chained behind an unsettled task
\*       "waiting"     suspended in the backpressure timeout (line 104)
\*       "generating"  suspended in await tts.generate (line 115)
\*       "settled"     its promise (with the trailing catch) is fulfilled
\*       "rejected"    its promise is rejected: the catch handler threw
Task(n) == [n |-> n, i |-> 0, pc |-> "queued"]

Settled(t) == t.pc \in {"settled", "rejected"}

\* The requests whose callback was skipped: settled without having started.
Skipped(w) == {r \in DOMAIN w.tasks : w.tasks[r].pc = "settled" /\ w.tasks[r].i = 0}

Running(w) == {r \in DOMAIN w.tasks : w.tasks[r].pc \in {"waiting", "generating"}}

\* A step of the worker: its state plus what the step posts (out) and the
\* requests whose stop handlers return during it (ret).
WorkerStep(w) ==
  [load |-> w.load,
   bufferQueueSize |-> w.bufferQueueSize, shouldStop |-> w.shouldStop,
   tasks |-> w.tasks, stopAwait |-> w.stopAwait, out |-> <<>>, ret |-> {}]

WorkerState(s) ==
  [load |-> s.load,
   bufferQueueSize |-> s.bufferQueueSize, shouldStop |-> s.shouldStop,
   tasks |-> s.tasks, stopAwait |-> s.stopAwait]

\* self.postMessage
Post(s, status, req, k) == [s EXCEPT !.out = Append(@, Msg(status, req, k))]

\* line 102: bufferQueueSize >= MAX_QUEUE_SIZE
BufferFullOffByOne(s) == s.bufferQueueSize > MAX_QUEUE_SIZE
BufferFull(s) == s.bufferQueueSize >= MAX_QUEUE_SIZE

\* currentTask.then(...): request r may run once the promise it was chained on
\* has settled (the initial currentTask is already resolved).
ChainSettledUnchained(s, r) == TRUE
ChainSettled(s, r) == r = 1 \/ Settled(s.tasks[r - 1])

RECURSIVE StartTask(_, _)

\* The task's promise settles: the stop handlers awaiting it return, and the
\* task chained on it starts in the same microtask checkpoint.
Settle(s, r) ==
  LET done == {a \in s.stopAwait : Settled(s.tasks[a.tail]) \/ a.tail = r}
      s1 == [s EXCEPT !.tasks[r].pc = "settled",
                      !.stopAwait = @ \ done,
                      !.ret = @ \cup UNION {a.running : a \in done}]
  IN IF r + 1 \in DOMAIN s.tasks /\ s.tasks[r + 1].pc = "queued"
       THEN StartTask(s1, r + 1)
       ELSE s1

\* lines 129-132: the complete of a run that was not stopped
FinalCheckUnguarded(s, r) == Settle(Post(s, "complete", r, 0), r)
FinalCheck(s, r) ==
  IF ~s.shouldStop THEN Settle(Post(s, "complete", r, 0), r) ELSE Settle(s, r)

\* lines 95-99, 109-113, 117-121: a cancellation checkpoint that found
\* shouldStop set posts complete and breaks out of the for-loop
Cancelled(s, r) == FinalCheck(Post(s, "complete", r, 0), r)

\* lines 108-115: after the wait loop; generate begins unless stopped
AfterWait(s, r) ==
  IF s.shouldStop THEN Cancelled(s, r)
  ELSE [s EXCEPT !.tasks[r].pc = "generating"]

\* lines 102-106: the head of the wait loop
WaitLoop(s, r) ==
  IF BufferFull(s) /\ ~s.shouldStop
    THEN [s EXCEPT !.tasks[r].pc = "waiting"]
    ELSE AfterWait(s, r)

\* lines 94-101: the top of the for-loop, at chunk tasks[r].i
LoopTop(s, r) ==
  IF s.tasks[r].i > s.tasks[r].n THEN FinalCheck(s, r)
  ELSE IF s.shouldStop THEN Cancelled(s, r)
  ELSE WaitLoop(s, r)

\* lines 88-92: the task body starts
StartTask(s, r) ==
  LET s1 == [s EXCEPT !.shouldStop = FALSE]
      s2 == Post(s1, "chunk_count", r, s.tasks[r].n)
  IN LoopTop([s2 EXCEPT !.tasks[r].i = 1], r)

\* line 105, then the while condition again
TimerFired(s, r) ==
  IF s.shouldStop THEN AfterWait(s, r) ELSE WaitLoop(s, r)

\* lines 115-127: tts.generate returned
AfterGenerateUnchecked(s, r) ==
  LET s1 == Post(s, "stream_audio_data", r, s.tasks[r].i)
  IN LoopTop([s1 EXCEPT !.bufferQueueSize = @ + 1, !.tasks[r].i = @ + 1], r)
AfterGenerate(s, r) ==
  IF s.shouldStop THEN Cancelled(s, r)
  ELSE LET s1 == Post(s, "stream_audio_data", r, s.tasks[r].i)
       IN LoopTop([s1 EXCEPT !.bufferQueueSize = @ + 1, !.tasks[r].i = @ + 1], r)

\* What tts.generate rejects with: a value that has a message or a string
\* form (an Error, a string, a number), or null/undefined.
Rejections == {"error", "nullish"}

\* lines 88, 133-136: request r was chained on a rejected promise.  Its
\* callback is skipped and the rejection, a TypeError, reaches its catch, which
\* posts it; nothing of lines 89-132 runs, shouldStop is not reset.
SkipTask(s, r) == Settle(Post(s, "error", r, 0), r)

\* The catch handler of request r threw: its promise is rejected.  The stop
\* handlers awaiting it return (their catch swallows the rejection) and the
\* task chained on it is skipped.
Reject(s, r) ==
  LET done == {a \in s.stopAwait : Settled(s.tasks[a.tail]) \/ a.tail = r}
      s1 == [s EXCEPT !.tasks[r].pc = "rejected",
                      !.stopAwait = @ \ done,
                      !.ret = @ \cup UNION {a.running : a \in done}]
  IN IF r + 1 \in DOMAIN s.tasks /\ s.tasks[r + 1].pc = "queued"
       THEN SkipTask(s1, r + 1)
       ELSE s1

\* lines 133-136: tts.generate threw err; the catch posts error.  It reads
\* err.message first (line 135), which throws a TypeError when err is null or
\* undefined: then nothing is posted and the promise of the task is rejected.
GenerateFailed(s, r, err) ==
  IF err = "nullish" THEN Reject(s, r)
  ELSE Settle(Post(s, "error", r, 0), r)

\* lines 72-78: await currentTask.  The handler is parked on the tail of the
\* chain unless that promise has already settled.
AwaitCurrentTask(s, run) ==
  LET tail == Len(s.tasks)
  IN IF tail = 0 \/ Settled(s.tasks[tail])
       THEN [s EXCEPT !.ret = @ \cup run]
       ELSE [s EXCEPT !.stopAwait = @ \cup {[tail |-> tail, running |-> run]}]

\* lines 68-79
OnStop(s) ==
  AwaitCurrentTask([s EXCEPT !.bufferQueueSize = 0, !.shouldStop = TRUE],
                   Running(s))

\* lines 81-84
OnBufferProcessed(s) ==
  [s EXCEPT !.bufferQueueSize = Max(0, s.bufferQueueSize - 1)]

\* lines 86-88: the request is chained on currentTask
OnText(s, n) ==
  LET r == Len(s.tasks) + 1
      s1 == [s EXCEPT !.tasks = Append(@, Task(n))]
  IN IF ~ChainSettled(s1, r) THEN s1
     ELSE IF r > 1 /\ s.tasks[r - 1].pc = "rejected" THEN SkipTask(s1, r)
     ELSE StartTask(s1, r)

\* lines 66-67: the message listener.  A message dispatched before line 66 ran
\* finds no listener and is lost.
OnMessage(s, m) ==
  IF s.load # "ready" THEN s
  ELSE IF m.type = "stop" THEN OnStop(s)
  ELSE IF m.type = "buffer_processed" THEN OnBufferProcessed(s)
  ELSE IF m.n > 0 THEN OnText(s, m.n)
  ELSE s

(* ------------------------------- history ------------------------------- *)

\* What a worker step adds to the history: per request the number of complete
\* messages posted, whether audio was posted after a complete (late) or after
\* a stop was processed while the request ran (postStop), the requests whose
\* stop handler has returned, and all messages posted, in order (log).
AudioIn(out, r) ==
  \E j \in DOMAIN out : out[j].status = "stream_audio_data" /\ out[j].req = r

CompletesIn(out, r) ==
  Cardinality({j \in DOMAIN out : out[j].status = "complete" /\ out[j].req = r})

LateIn(out, r) ==
  \E j, k \in DOMAIN out :
    /\ j < k
    /\ out[j].status = "complete" /\ out[j].req = r
    /\ out[k].status = "stream_audio_data" /\ out[k].req = r

WorkerHistory(hh, s) ==
  LET old(r) == IF r \in DOMAIN hh.completes THEN hh.completes[r] ELSE 0
      reqs == DOMAIN s.tasks
  IN [hh EXCEPT
        !.completes = [r \in reqs |-> old(r) + CompletesIn(s.out, r)],
        !.late = @ \cup {r \in reqs : LateIn(s.out, r)
                                       \/ (old(r) > 0 /\ AudioIn(s.out, r))},
        !.postStop = @ \cup {r \in hh.stopped : AudioIn(s.out, r)},
        !.stopReturned = @ \cup s.ret,
        !.log = @ \o s.out]

(* ----------------------------- worker actions -------------------------- *)

\* The worker's event loop takes the next message.
WorkerReceive ==
  /\ c2w # <<>>
  /\ LET m == Head(c2w)
         s == OnMessage(WorkerStep(wk), m)
         queued == {r \in DOMAIN wk.tasks : wk.tasks[r].pc = "queued"}
         h1 == IF m.type = "stop" /\ wk.load = "ready"
                 THEN [h EXCEPT !.stopped = @ \cup Running(wk),
                                !.pendingAtStop = @ \cup queued]
                 ELSE h
     IN /\ wk' = WorkerState(s)
        /\ w2c' = w2c \o s.out
        /\ h' = WorkerHistory(h1, s)
  /\ c2w' = Tail(c2w)
  /\ UNCHANGED <<ui, tx>>

\* line 14-15: detectWebGPU resolved.
DeviceDetected ==
  /\ wk.load = "boot"
  /\ wk' = [wk EXCEPT !.load = "loading"]
  /\ w2c' = Append(w2c, Msg("loading_model_start", 0, 0))
  /\ h' = [h EXCEPT !.log = Append(@, Msg("loading_model_start", 0, 0))]
  /\ UNCHANGED <<ui, c2w, tx>>

\* lines 50-52: the progress callback of from_pretrained is called with
\* progress k / 100.
LoadProgress(k) ==
  /\ wk.load = "loading"
  /\ h.progressed < MaxProgress
  /\ w2c' = Append(w2c, Msg("loading_model_progress", 0, k))
  /\ h' = [h EXCEPT !.progressed = @ + 1,
                    !.log = Append(@, Msg("loading_model_progress", 0, k))]
  /\ UNCHANGED <<wk, ui, c2w, tx>>

\* lines 58-66: from_pretrained resolved; the globals are initialized and the
\* listener is registered.
LoadReady ==
  /\ wk.load = "loading"
  /\ wk' = [wk EXCEPT !.load = "ready"]
  /\ w2c' = Append(w2c, Msg("loading_model_ready", 0, 0))
  /\ h' = [h EXCEPT !.log = Append(@, Msg("loading_model_ready", 0, 0))]
  /\ UNCHANGED <<ui, c2w, tx>>

\* lines 53-56: what the catch of from_pretrained posts.  It reads e.message
\* first: a rejection with null or undefined throws there and nothing is
\* posted.
LoadRejected(err) == IF err = "nullish" THEN <<>> ELSE <<Msg("error", 0, 0)>>

\* lines 53-56: from_pretrained rejected; the catch throws (e again, or the
\* TypeError), which ends the module.
LoadFailed(err) ==
  /\ wk.load = "loading"
  /\ wk' = [wk EXCEPT !.load = "failed"]
  /\ w2c' = w2c \o LoadRejected(err)
  /\ h' = [h EXCEPT !.log = @ \o LoadRejected(err)]
  /\ UNCHANGED <<ui, c2w, tx>>

\* The one-second timeout of the backpressure wait fires.
TimerFire(r) ==
  /\ wk.tasks[r].pc = "waiting"
  /\ LET s == TimerFired(WorkerStep(wk), r)
     IN /\ wk' = WorkerState(s)
        /\ w2c' = w2c \o s.out
        /\ h' = WorkerHistory(h, s)
  /\ UNCHANGED <<ui, c2w, tx>>

\* tts.generate resolves with the chunk's audio.
GenerateReturns(r) ==
  /\ wk.tasks[r].pc = "generating"
  /\ LET s == AfterGenerate(WorkerStep(wk), r)
     IN /\ wk' = WorkerState(s)
        /\ w2c' = w2c \o s.out
        /\ h' = WorkerHistory(h, s)
  /\ UNCHANGED <<ui, c2w, tx>>

\* tts.generate rejects.
GenerateThrows(r, err) ==
  /\ wk.tasks[r].pc = "generating"
  /\ LET s == GenerateFailed(WorkerStep(wk), r, err)
     IN /\ wk' = WorkerState(s)
        /\ w2c' = w2c \o s.out
        /\ h' = WorkerHistory([h EXCEPT !.failed = @ \cup {r}], s)
  /\ UNCHANGED <<ui, c2w, tx>>

WorkerNext ==
  \/ DeviceDetected
  \/ \E k \in LoadProgressValues : LoadProgress(k)
  \/ LoadReady
  \/ \E err \in Rejections : LoadFailed(err)
  \/ WorkerReceive
  \/ \E r \in DOMAIN wk.tasks : TimerFire(r)
  \/ \E r \in DOMAIN wk.tasks : GenerateReturns(r)
  \/ \E r \in DOMAIN wk.tasks, err \in Rejections : GenerateThrows(r, err)

(* ------------------ the worker under arbitrary messages ---------------- *)

\* Any message is delivered to the worker at any time.
EnvPost ==
  /\ c2w = <<>>
  /\ \E m \in {MsgStop, MsgBufferProcessed} \cup {MsgText(n) : n \in ChunkCounts} :
       c2w' = Append(c2w, m)
  /\ h' = [h EXCEPT !.env = @ + 1]
  /\ UNCHANGED <<wk, ui, w2c, tx>>

\* The receiving side takes the worker's next message.
EnvTake ==
  /\ w2c # <<>>
  /\ w2c' = Tail(w2c)
  /\ UNCHANGED <<wk, ui, c2w, h, tx>>

(* ----------------------- controller: src/app/page.tsx ------------------ *)

\* An AudioUnit held by the controller: chunk k of request req.  d (the
\* position of the unit in the order of delivery) and sess (the session that
\* was current when it was delivered) are history, the code keeps neither.
Unit(req, k, d, sess) == [req |-> req, k |-> k, d |-> d, sess |-> sess]
NoUnit == Unit(0, 0, 0, 0)

\* A running playQueue call, suspended with the unit it took from the queue:
\*   "resuming"   source created, awaiting ctx.resume() (line 130)
\*   "rendering"  source started, awaiting its ended event (lines 156-159)
\*   "stopped"    source.stop() was called, the ended event is due
\* startChars is the local of line 136 (0 until the loop gets there).
Loop(u, st, startChars) == [unit |-> u, st |-> st, startChars |-> startChars]

\* The animation frame requested for `step` and not yet run (the id kept in
\* chunkAnimationRef): the unit it animates, the startChars of its closure and
\* the number of words its last run reported (elapsed time only grows).
Frame(d, startChars, words) == [d |-> d, startChars |-> startChars, words |-> words]
NoFrame == Frame(0, 0, 0)

\* A step of the controller: its state plus the messages the step posts to
\* the worker (out), whether it threw (exc), the units whose source it
\* started (started) and the text it sent for generation (sliced).
ControllerStep(c) ==
  [queueRef |-> c.queueRef, playingRef |-> c.playingRef,
   isStreaming |-> c.isStreaming, totalChunks |-> c.totalChunks,
   processedChunks |-> c.processedChunks,
   streamingProgress |-> c.streamingProgress, sourceRef |-> c.sourceRef,
   loops |-> c.loops, ctxState |-> c.ctxState,
   readChars |-> c.readChars, streamBaseOffset |-> c.streamBaseOffset,
   statusMessage |-> c.statusMessage, frame |-> c.frame,
   workerRef |-> c.workerRef, ttsReady |-> c.ttsReady,
   loadingProgress |-> c.loadingProgress, currentText |-> c.currentText,
   out |-> <<>>, exc |-> FALSE, started |-> {}, sliced |-> <<>>]

ControllerState(c) ==
  [queueRef |-> c.queueRef, playingRef |-> c.playingRef,
   isStreaming |-> c.isStreaming, totalChunks |-> c.totalChunks,
   processedChunks |-> c.processedChunks,
   streamingProgress |-> c.streamingProgress, sourceRef |-> c.sourceRef,
   loops |-> c.loops, ctxState |-> c.ctxState,
   readChars |-> c.readChars, streamBaseOffset |-> c.streamBaseOffset,
   statusMessage |-> c.statusMessage, frame |-> c.frame,
   workerRef |-> c.workerRef, ttsReady |-> c.ttsReady,
   loadingProgress |-> c.loadingProgress, currentText |-> c.currentText]

\* workerRef.current?.postMessage
PostToWorker(c, m) ==
  IF c.workerRef THEN [c EXCEPT !.out = Append(@, m)] ELSE c

\* Math.round((x / y) * 100) for naturals x, y with y > 0, in doubles
RoundRatio(x, y) == MathRound(MulInt(DivInt(FromInt(x), y), 100))

\* RoundRatio for the chunk counts of the model, computed once.
RoundPercentTable ==
  [x \in 0..(2 * MaxChunks) |-> [y \in 1..MaxChunks |-> RoundRatio(x, y)]]

RoundPercent(x, y) ==
  IF x \in 0..(2 * MaxChunks) /\ y \in 1..MaxChunks
    THEN RoundPercentTable[x][y]
    ELSE RoundRatio(x, y)

\* line 203: Math.round(Number(progress) * 100) for the progress k / 100
LoadingProgressTable == [k \in LoadProgressValues |-> RoundRatio(k, 100)]

LoadingProgressOf(k) ==
  IF k \in LoadProgressValues THEN LoadingProgressTable[k]
  ELSE RoundRatio(k, 100)

\* line 122: queueRef.current.shift()
playQueueNextLast(q) == [next |-> q[Len(q)], rest |-> SubSeq(q, 1, Len(q) - 1)]
playQueueNext(q) == [next |-> Head(q), rest |-> Tail(q)]

\* lines 132-159: the pending frame is cancelled, startChars is read, the
\* first frame of `step` is requested and the source is started.
render(c, u) ==
  [c EXCEPT !.frame = Frame(u.d, c.readChars, 0),
            !.loops = {l \in @ : l.unit # u}
                        \cup {Loop(u, "rendering", c.readChars)},
            !.started = @ \cup {u.d}]

\* lines 121-159: the while loop of playQueue from its condition to the next
\* await; line 174 when the queue is empty.
Drain(c) ==
  IF c.queueRef = <<>> THEN [c EXCEPT !.playingRef = FALSE]
  ELSE LET nx == playQueueNext(c.queueRef)
           c1 == [c EXCEPT !.queueRef = nx.rest, !.sourceRef = nx.next]
       IN IF c.ctxState = "suspended"
            THEN [c1 EXCEPT !.loops = @ \cup {Loop(nx.next, "resuming", 0)}]
            ELSE render(c1, nx.next)

\* lines 116-119
playQueue(c) ==
  IF c.playingRef THEN c ELSE Drain([c EXCEPT !.playingRef = TRUE])

\* lines 177-186
enqueueAudio(c, u) ==
  IF ~c.isStreaming THEN c
  ELSE playQueue([c EXCEPT !.queueRef = Append(@, u)])

\* handleMessage dropping the pending units on an error message, as it does
\* on complete (a variant used to test C20)
handleMessageErrorClears(c, m, u) ==
  CASE m.status = "loading_model_start" ->
         [c EXCEPT !.statusMessage = "Loading Kokoro weights...",
                   !.loadingProgress = 0]
    [] m.status = "loading_model_progress" ->
         [c EXCEPT !.loadingProgress = LoadingProgressOf(m.k),
                   !.statusMessage = "Downloading model..."]
    [] m.status = "loading_model_ready" ->
         [c EXCEPT !.ttsReady = TRUE, !.statusMessage = "Model ready",
                   !.loadingProgress = 100]
    [] m.status = "chunk_count" ->
         [c EXCEPT !.totalChunks = m.k, !.processedChunks = 0,
                   !.streamingProgress = 0]
    [] m.status = "stream_audio_data" -> enqueueAudio(c, u)
    [] m.status = "complete" ->
         [c EXCEPT !.isStreaming = FALSE,
                   !.statusMessage = "Streaming complete",
                   !.streamingProgress = 100,
                   !.queueRef = <<>>]
    [] m.status = "error" ->
         [c EXCEPT !.statusMessage = "Error: ", !.isStreaming = FALSE,
                   !.queueRef = <<>>]
    [] OTHER -> c

\* lines 195-241
handleMessage(c, m, u) ==
  CASE m.status = "loading_model_start" ->
         [c EXCEPT !.statusMessage = "Loading Kokoro weights...",
                   !.loadingProgress = 0]
    [] m.status = "loading_model_progress" ->
         [c EXCEPT !.loadingProgress = LoadingProgressOf(m.k),
                   !.statusMessage = "Downloading model..."]
    [] m.status = "loading_model_ready" ->
         [c EXCEPT !.ttsReady = TRUE, !.statusMessage = "Model ready",
                   !.loadingProgress = 100]
    [] m.status = "chunk_count" ->
         [c EXCEPT !.totalChunks = m.k, !.processedChunks = 0,
                   !.streamingProgress = 0]
    [] m.status = "stream_audio_data" -> enqueueAudio(c, u)
    [] m.status = "complete" ->
         [c EXCEPT !.isStreaming = FALSE,
                   !.statusMessage = "Streaming complete",
                   !.streamingProgress = 100,
                   !.queueRef = <<>>]
    [] m.status = "error" ->
         [c EXCEPT !.statusMessage = "Error: ", !.isStreaming = FALSE]
    [] OTHER -> c

\* lines 243-248
handleError(c) ==
  [c EXCEPT !.statusMessage = "Something went wrong while streaming.",
            !.isStreaming = FALSE]

\* lines 130-131: ctx.resume() resolved; the loop goes on at line 132
afterResume(c, l) == render([c EXCEPT !.ctxState = "running"], l.unit)

\* line 139
TotalWords == Max(1, Len(getWordBoundaries(ChunkText)) - 1)

\* lines 142-153: a run of `step`.  words is wordsRead: the elapsed part of
\* the unit's duration in words; the frame is requested again while the unit
\* is not through and the controller is streaming.
step(c, words) ==
  LET boundaries == getWordBoundaries(ChunkText)
      currentChars == Min(SampleTextLen, c.frame.startChars + boundaries[words + 1])
  IN [c EXCEPT !.readChars = currentChars,
               !.frame = IF words < TotalWords /\ c.isStreaming
                           THEN Frame(c.frame.d, c.frame.startChars, words)
                           ELSE NoFrame]

\* lines 160-172: the ended event resolved the await; then the loop goes on
afterEnded(c, l) ==
  LET boundaries == getWordBoundaries(ChunkText)
      newCount == Min(SampleTextLen, l.startChars + boundaries[Len(boundaries)])
      p == c.processedChunks + 1
      c1 == [c EXCEPT !.loops = @ \ {l},
                      !.readChars = newCount,
                      !.processedChunks = p,
                      !.streamingProgress =
                         IF c.totalChunks > 0
                           THEN Min(RoundPercent(p, c.totalChunks), 99)
                           ELSE @]
  IN Drain(PostToWorker(c1, MsgBufferProcessed))

\* The state of the node in sourceRef.current.
SourceState(c) ==
  IF c.sourceRef = NoUnit THEN "none"
  ELSE IF \E l \in c.loops : l.unit = c.sourceRef
    THEN (CHOOSE l \in c.loops : l.unit = c.sourceRef).st
    ELSE "ended"

\* lines 261-280.  AudioScheduledSourceNode.stop() throws InvalidStateError
\* on a node that was never started; the rest of stopAudio is then skipped.
stopAudio(c, resetOffset) ==
  LET c1 == [c EXCEPT !.queueRef = <<>>, !.processedChunks = 0,
                      !.totalChunks = 0]
  IN IF SourceState(c) = "resuming" THEN [c1 EXCEPT !.exc = TRUE]
     ELSE PostToWorker(
            [c1 EXCEPT !.loops = {IF l.unit = c.sourceRef /\ l.st = "rendering"
                                    THEN Loop(l.unit, "stopped", l.startChars)
                                    ELSE l
                                  : l \in c.loops},
                       !.playingRef = FALSE,
                       !.isStreaming = FALSE,
                       !.frame = NoFrame,
                       !.streamingProgress = 0,
                       !.streamBaseOffset =
                          IF resetOffset THEN Percent(0) ELSE @,
                       !.readChars = IF resetOffset THEN 0 ELSE @],
            MsgStop)

\* lines 282-287: min(100, base + progress * (1 - base / 100))
EffectiveProgress(base, progress) ==
  Min100(Add(base, MulInt(Sub(Percent(1), DivInt(base, 100)), progress)))

\* EffectiveProgress for the positions of the slider in the model and the
\* whole progress values, computed once.
EffectiveProgressTable ==
  [n \in SeekValues \cup ScrubValues |->
     [progress \in 0..MaxPercent |-> EffectiveProgress(Percent(n), progress)]]

\* EffectiveProgress, from the table when base is the whole number n
EffectiveProgressAt(base, n, progress) ==
  IF n \in SeekValues \cup ScrubValues /\ progress \in 0..MaxPercent
    THEN EffectiveProgressTable[n][progress]
    ELSE EffectiveProgress(base, progress)

getEffectiveProgress(c) ==
  EffectiveProgressAt(c.streamBaseOffset, Whole(c.streamBaseOffset),
                      c.streamingProgress)

\* lines 308-311: the index in `text` at which the slice for percent begins
sliceStart(text, percent) ==
  LET pct == Min100(percent)
      startIndex == FloorPercentOf(pct, Len(text))
      nextBoundary == IndexOfSpace(text, startIndex + 1)
  IN IF nextBoundary > -1 THEN nextBoundary + 1 ELSE startIndex

\* lines 306-314 with `text` for currentText
sliceTextFrom(text, percent) ==
  IF text = <<>> THEN <<>> ELSE Slice(text, sliceStart(text, percent))

\* lines 306-314: the text from the word after the one at percent on
sliceTextFromPercent(c, percent) ==
  sliceTextFrom(TextOf(c.currentText), percent)

\* startStreamingFrom without the check of the sliced text (a variant used to
\* test C18)
startStreamingFromUnchecked(c, percent, n) ==
  LET offsetChars == FloorPercentOf(percent, Len(TextOf(c.currentText)))
      c1 == stopAudio([c EXCEPT !.readChars = offsetChars], FALSE)
  IN IF c1.exc THEN c1
     ELSE PostToWorker(
            [c1 EXCEPT !.streamBaseOffset = percent,
                       !.isStreaming = TRUE,
                       !.statusMessage = "Generating audio...",
                       !.processedChunks = 0,
                       !.totalChunks = 0, !.streamingProgress = 0,
                       !.sliced = sliceTextFromPercent(c, percent)],
            MsgText(n))

\* lines 316-343; n is the number of chunks the worker will split the sliced
\* text into.
startStreamingFrom(c, percent, n) ==
  IF ~c.workerRef THEN [c EXCEPT !.statusMessage = "No TTS worker available."]
  ELSE LET slicedText == sliceTextFromPercent(c, percent) IN
    IF slicedText = <<>>
      THEN [c EXCEPT !.statusMessage = "No text to stream yet."]
    ELSE
      LET offsetChars == FloorPercentOf(percent, Len(TextOf(c.currentText)))
          c1 == stopAudio([c EXCEPT !.readChars = offsetChars], FALSE)
      IN IF c1.exc THEN c1
         ELSE PostToWorker(
                [c1 EXCEPT !.streamBaseOffset = percent,
                           !.isStreaming = TRUE,
                           !.statusMessage = "Generating audio...",
                           !.processedChunks = 0,
                           !.totalChunks = 0, !.streamingProgress = 0,
                           !.sliced = slicedText],
                MsgText(n))

\* lines 483-494
startStreaming(c, n) ==
  LET effective == getEffectiveProgress(c)
  IN IF c.isStreaming
       THEN LET c1 == stopAudio(c, FALSE)
            IN IF c1.exc THEN c1
               ELSE [c1 EXCEPT !.streamBaseOffset = effective,
                               !.statusMessage = "Paused"]
       ELSE startStreamingFrom(c, c.streamBaseOffset, n)

\* lines 500-503
commitTimelineScrub(c, value, n) == startStreamingFrom(c, Percent(value), n)

\* What a controller step adds to the history: the delivery numbers of the
\* last two units whose playback began.
ControllerHistory(hh, c) ==
  IF c.started = {} THEN hh
  ELSE [hh EXCEPT !.prevStarted = hh.lastStarted,
                  !.lastStarted = CHOOSE d \in c.started : TRUE]

TextPosted(c) == \E j \in DOMAIN c.out : c.out[j].type = "text"

\* The last gesture of the user: "play", "pause", "stop" or "seek", the
\* percent it started from (of a play or seek) and whether its handler threw.
Gesture(kind, percent, threw) ==
  [kind |-> kind, percent |-> percent, threw |-> threw]
NoGesture == Gesture("none", Percent(0), FALSE)

\* The pause button was pressed at base offset `base`, streaming progress
\* `progress` and character offset `chars`.
PausedAt(set, base, progress, chars) ==
  [set |-> set, base |-> base, progress |-> progress, chars |-> chars]
NotPaused == PausedAt(FALSE, Percent(0), 0, 0)

\* A play without offset started a session: the pause before it (if any) and
\* the index in currentText at which the text it sent begins and the length of
\* currentText.
Resumed(set, paused, start, length) ==
  [set |-> set, paused |-> paused, start |-> start, length |-> length]
NotResumed == Resumed(FALSE, NotPaused, 0, 0)

(* --------------------------- controller actions ------------------------ *)

\* The controller's event loop takes the worker's next message.
ControllerReceive ==
  /\ w2c # <<>>
  /\ LET m == Head(w2c)
         u == Unit(m.req, m.k, h.delivered + 1, h.session)
         c == handleMessage(ControllerStep(ui), m, u)
         accepted == m.status = "stream_audio_data" /\ ui.isStreaming
         ownEnd == m.status \in {"complete", "error"} /\ m.req = h.session
     IN /\ ui' = ControllerState(c)
        /\ c2w' = c2w \o c.out
        /\ h' = ControllerHistory(
                  [h EXCEPT !.delivered = IF accepted THEN @ + 1 ELSE @,
                            !.live = IF ownEnd THEN FALSE ELSE @,
                            !.open = IF ownEnd THEN FALSE ELSE @], c)
  /\ w2c' = Tail(w2c)
  /\ UNCHANGED <<wk, tx>>

\* ctx.resume() resolves and the loop starts its source.
ResumeResolved(l) ==
  /\ l.st = "resuming"
  /\ LET c == afterResume(ControllerStep(ui), l)
     IN /\ ui' = ControllerState(c)
        /\ c2w' = c2w \o c.out
        /\ h' = ControllerHistory(h, c)
  /\ UNCHANGED <<wk, w2c, tx>>

\* The ended event of a source is dispatched: the unit played to its end, or
\* stop() was called on it.
UnitEnded(l) ==
  /\ l.st \in {"rendering", "stopped"}
  /\ LET c == afterEnded(ControllerStep(ui), l)
     IN /\ ui' = ControllerState(c)
        /\ c2w' = c2w \o c.out
        /\ h' = ControllerHistory(h, c)
  /\ UNCHANGED <<wk, w2c, tx>>

\* An animation frame: `step` runs.  While the unit plays, any part of its
\* duration not less than at the last run may have elapsed; once it has played
\* to its end, all of it has.
HighlightTick(words) ==
  /\ ui.frame # NoFrame
  /\ words >= ui.frame.words
  /\ \/ words = TotalWords
     \/ \E l \in ui.loops : l.unit.d = ui.frame.d /\ l.st = "rendering"
  /\ ui' = ControllerState(step(ControllerStep(ui), words))
  /\ UNCHANGED <<wk, c2w, w2c, h, tx>>

\* The play/pause button (lines 676, 716: disabled while the model is not
\* ready and no progress is shown); n is the number of chunks of the text a
\* play sends.
UserPlayPause(n) ==
  /\ ui.ttsReady \/ ui.loadingProgress # 0
  /\ LET c == startStreaming(ControllerStep(ui), n)
         pause == ui.isStreaming
         play == ~pause /\ TextPosted(c)
         pressed == PausedAt(TRUE, ui.streamBaseOffset, ui.streamingProgress,
                             ui.readChars)
     IN /\ ui' = ControllerState(c)
        /\ c2w' = c2w \o c.out
        /\ h' = ControllerHistory(
                  [h EXCEPT !.ops = @ + 1,
                            !.session = IF play THEN @ + 1 ELSE @,
                            !.chunks = IF play THEN @ + n ELSE @,
                            !.live = IF pause \/ play THEN FALSE ELSE @,
                            !.open = IF pause THEN FALSE
                                     ELSE IF play THEN TRUE ELSE @,
                            !.inSession = IF play THEN TRUE ELSE @,
                            !.idle = IF pause THEN @ ELSE FALSE,
                            !.paused = IF c.exc THEN @
                                       ELSE IF pause THEN TRUE
                                       ELSE IF play THEN FALSE
                                       ELSE @,
                            !.pausedAt = IF pause THEN pressed
                                         ELSE IF play THEN NotPaused ELSE @,
                            !.resumed =
                               IF play
                                 THEN Resumed(TRUE, h.pausedAt,
                                              Len(TextOf(ui.currentText))
                                                - Len(c.sliced),
                                              Len(TextOf(ui.currentText)))
                                 ELSE NotResumed,
                            !.gesture =
                               Gesture(IF pause THEN "pause" ELSE "play",
                                       ui.streamBaseOffset, c.exc)], c)
  /\ UNCHANGED <<wk, w2c, tx>>

\* The stop button.
UserStop ==
  /\ LET c == stopAudio(ControllerStep(ui), TRUE)
     IN /\ ui' = ControllerState(c)
        /\ c2w' = c2w \o c.out
        /\ h' = ControllerHistory(
                  [h EXCEPT !.ops = @ + 1, !.live = FALSE, !.open = FALSE,
                            !.inSession = IF c.exc THEN @ ELSE FALSE,
                            !.idle = IF c.exc THEN @ ELSE TRUE,
                            !.paused = IF c.exc THEN @ ELSE FALSE,
                            !.pausedAt = NotPaused,
                            !.resumed = NotResumed,
                            !.gesture = Gesture("stop", Percent(0), c.exc)],
                  c)
  /\ UNCHANGED <<wk, w2c, tx>>

\* The timeline slider is released at value (percent); n is the number of
\* chunks of the remaining text.  live records a session started by a seek in
\* Streaming or Paused.
UserSeek(value, n) ==
  /\ LET c == commitTimelineScrub(ControllerStep(ui), value, n)
         seek == TextPosted(c)
     IN /\ ui' = ControllerState(c)
        /\ c2w' = c2w \o c.out
        /\ h' = ControllerHistory(
                  [h EXCEPT !.ops = @ + 1,
                            !.session = IF seek THEN @ + 1 ELSE @,
                            !.chunks = IF seek THEN @ + n ELSE @,
                            !.live = IF seek
                                       THEN ui.isStreaming \/ h.paused ELSE @,
                            !.open = IF seek THEN TRUE ELSE @,
                            !.inSession = IF seek THEN TRUE ELSE @,
                            !.idle = FALSE,
                            !.paused = IF seek THEN FALSE ELSE @,
                            !.pausedAt = IF seek THEN NotPaused ELSE @,
                            !.resumed = IF seek THEN NotResumed ELSE @,
                            !.gesture =
                               Gesture("seek", Percent(value), c.exc)], c)
  /\ UNCHANGED <<wk, w2c, tx>>

\* line 668: the text area was edited; currentText is the normalized value,
\* which may be empty.
TextAreaChange(text) ==
  /\ ui' = [ui EXCEPT !.currentText = text]
  /\ h' = [h EXCEPT !.edits = @ + 1]
  /\ UNCHANGED <<wk, c2w, w2c, tx>>

\* lines 411-423: captureCurrentText found `text` (normalized, not empty) in
\* the rendition, after a page of the book was rendered or relocated or a
\* chapter was selected.
captureCurrentText(text) ==
  /\ ui' = [ui EXCEPT !.currentText = text, !.readChars = 0]
  /\ h' = [h EXCEPT !.edits = @ + 1]
  /\ UNCHANGED <<wk, c2w, w2c, tx>>

\* lines 429-465: captureCurrentText found no text and hydrateTextFallback
\* loaded `text` (normalized, not empty) from the book.
hydrateTextFallback(text) ==
  /\ ui' = [ui EXCEPT !.currentText = text]
  /\ h' = [h EXCEPT !.edits = @ + 1]
  /\ UNCHANGED <<wk, c2w, w2c, tx>>

\* lines 243-251: the exception that ended the worker's module is reported to
\* the page as an error event.
WorkerError ==
  /\ wk.load = "failed"
  /\ wk' = [wk EXCEPT !.load = "reported"]
  /\ ui' = ControllerState(handleError(ControllerStep(ui)))
  /\ UNCHANGED <<c2w, w2c, h, tx>>

\* The changes of the text: at most MaxEdits of them.
TextNext ==
  \/ h.edits < MaxEdits /\ \E text \in {"", "typed"} : TextAreaChange(text)
  \/ h.edits < MaxEdits /\ captureCurrentText("book")
  \/ h.edits < MaxEdits /\ hydrateTextFallback("book")

\* The controller's event loop, and at most MaxOps gestures of the user.
ControllerNext ==
  \/ ControllerReceive
  \/ WorkerError
  \/ TextNext
  \/ \E l \in ui.loops : ResumeResolved(l)
  \/ \E l \in ui.loops : UnitEnded(l)
  \/ \E words \in 0..TotalWords : HighlightTick(words)
  \/ h.ops < MaxOps /\ \E n \in ChunkCounts : UserPlayPause(n)
  \/ h.ops < MaxOps /\ UserStop
  \/ h.ops < MaxOps /\ \E value \in SeekValues, n \in ChunkCounts :
                         UserSeek(value, n)

(* ----------------------------- specifications -------------------------- *)

\* A call of a text function: its name, the text and the number it is given
\* (a percent) and its results (an index and a sequence).
Call(fn, text, arg, start, out) ==
  [fn |-> fn, text |-> text, arg |-> arg, start |-> start, out |-> out]
NoCall == Call("none", <<>>, 0, 0, <<>>)

\* The state after the page is mounted (lines 77-83, 190-193): the worker was
\* created and runs the top of its module.
Mounted ==
  [wk |-> [load |-> "boot", bufferQueueSize |-> 0, shouldStop |-> FALSE,
           tasks |-> <<>>, stopAwait |-> {}],
   ui |-> [queueRef |-> <<>>, playingRef |-> FALSE, isStreaming |-> FALSE,
           totalChunks |-> 0, processedChunks |-> 0, streamingProgress |-> 0,
           sourceRef |-> NoUnit, loops |-> {}, ctxState |-> "suspended",
           readChars |-> 0, streamBaseOffset |-> Percent(0),
           statusMessage |-> "Model not loaded yet", frame |-> NoFrame,
           workerRef |-> TRUE, ttsReady |-> FALSE, loadingProgress |-> 0,
           currentText |-> "sample"],
   h |-> [completes |-> <<>>, late |-> {}, failed |-> {}, stopped |-> {},
          pendingAtStop |-> {}, postStop |-> {}, stopReturned |-> {},
          log |-> <<>>, progressed |-> 0, edits |-> 0, env |-> 0, ops |-> 0,
          chunks |-> 0,
          session |-> 0, live |-> FALSE,
          paused |-> FALSE, delivered |-> 0, lastStarted |-> 0,
          prevStarted |-> 0, gesture |-> NoGesture,
          open |-> FALSE, inSession |-> FALSE,
          idle |-> FALSE, pausedAt |-> NotPaused, resumed |-> NotResumed]]

InitProgram ==
  /\ wk = Mounted.wk
  /\ ui = Mounted.ui
  /\ c2w = <<>>
  /\ w2c = <<>>
  /\ h = Mounted.h

\* The state after the model was loaded without a progress report and the
\* page has handled loading_model_start and loading_model_ready.
InitLoaded ==
  /\ wk = [Mounted.wk EXCEPT !.load = "ready"]
  /\ ui = [Mounted.ui EXCEPT !.ttsReady = TRUE, !.loadingProgress = 100,
                             !.statusMessage = "Model ready"]
  /\ c2w = <<>>
  /\ w2c = <<>>
  /\ h = [Mounted.h EXCEPT !.log = <<Msg("loading_model_start", 0, 0),
                                     Msg("loading_model_ready", 0, 0)>>]

Init == InitProgram /\ tx = NoCall

InitSession == InitLoaded /\ tx = NoCall

\* The whole program: the controller, driven by the user, and the worker.
Next == ControllerNext \/ WorkerNext

Spec == Init /\ [][Next]_vars

\* The whole program from the loaded model on, with the text left as it is,
\* a worker whose generate calls all return, the highlight sampled when a unit
\* is through and the slider released past the start.  The texts sent make
\* at most MaxChunks + 1 chunks in all: a text of MaxChunks chunks and a text
\* of a single one, in either order.
ChunksLeft(n) == h.chunks + n <= MaxChunks + 1

NextSession ==
  \/ ControllerReceive
  \/ \E l \in ui.loops : ResumeResolved(l)
  \/ \E l \in ui.loops : UnitEnded(l)
  \/ HighlightTick(TotalWords)
  \/ h.ops < MaxOps /\ \E n \in ChunkCounts :
                         (ui.isStreaming \/ ChunksLeft(n)) /\ UserPlayPause(n)
  \/ h.ops < MaxOps /\ UserStop
  \/ h.ops < MaxOps /\ \E value \in SeekValues \ {0}, n \in ChunkCounts :
                         ChunksLeft(n) /\ UserSeek(value, n)
  \/ WorkerReceive
  \/ \E r \in DOMAIN wk.tasks : TimerFire(r)
  \/ \E r \in DOMAIN wk.tasks : GenerateReturns(r)

SpecSession == InitSession /\ [][NextSession]_vars

\* The worker alone, under every sequence of messages.
NextWorker == (h.env < MaxEnv /\ EnvPost) \/ EnvTake \/ WorkerNext

SpecWorker == Init /\ [][NextWorker]_vars

(* --------------- the controller under arbitrary messages --------------- *)

\* Any worker message is delivered to the controller at any time.  The
\* controller does not read the request tag.
WorkerPosts ==
  /\ w2c = <<>>
  /\ \E m \in {Msg("chunk_count", h.session, n) : n \in ChunkCounts}
              \cup {Msg(st, h.session, 0) :
                      st \in {"stream_audio_data", "complete", "error"}}
              \cup {Msg("loading_model_progress", 0, k) :
                      k \in LoadProgressValues}
              \cup {Msg(st, 0, 0) :
                      st \in {"loading_model_start", "loading_model_ready"}} :
       w2c' = Append(w2c, m)
  /\ h' = [h EXCEPT !.env = @ + 1]
  /\ UNCHANGED <<wk, ui, c2w, tx>>

\* The worker raises an error event (an exception nobody caught in it).
WorkerErrorEvent ==
  /\ LET c == handleError(ControllerStep(ui))
     IN /\ ui' = ControllerState(c)
        /\ h' = ControllerHistory([h EXCEPT !.env = @ + 1], c)
  /\ UNCHANGED <<wk, c2w, w2c, tx>>

\* The worker side takes the controller's next message.
WorkerTakes ==
  /\ c2w # <<>>
  /\ c2w' = Tail(c2w)
  /\ UNCHANGED <<wk, ui, w2c, h, tx>>

\* At most MaxEvents gestures, worker events and changes of the text, in any
\* order, at most MaxEdits of them changes of the text.  The chunk count of
\* the text a gesture sends plays no part here; the highlight is sampled when
\* a unit is through, and the slider is released past the start.
EventsLeft == h.ops + h.env + h.edits < MaxEvents

NextController ==
  \/ EventsLeft /\ WorkerPosts
  \/ EventsLeft /\ WorkerErrorEvent
  \/ WorkerTakes
  \/ ControllerReceive
  \/ EventsLeft /\ TextNext
  \/ \E l \in ui.loops : ResumeResolved(l)
  \/ \E l \in ui.loops : UnitEnded(l)
  \/ HighlightTick(TotalWords)
  \/ EventsLeft /\ UserPlayPause(1)
  \/ EventsLeft /\ UserStop
  \/ EventsLeft /\ \E value \in ScrubValues : UserSeek(value, 1)

SpecController == Init /\ [][NextController]_vars

(* ------------------------ the text functions alone --------------------- *)

\* The characters of the texts: a letter, a sentence end, a clause end and
\* whitespace.
Chars == {"a", ".", ",", " "}

Texts == UNION {[1..n -> Chars] : n \in 0..MaxTextLen}

\* The results of normalizeForPlayback (line 114): no whitespace at either
\* end and none after whitespace.
Normalized(text) ==
  \A j \in DOMAIN text :
    IsSpace(text[j]) => /\ j > 1
                        /\ j < Len(text)
                        /\ ~IsSpace(text[j - 1])

InitText ==
  /\ InitProgram
  /\ \E text \in Texts : tx = Call("input", text, 0, 0, <<>>)

\* sliceTextFromPercent(p) with tx.text as currentText
SliceCall(p) ==
  /\ tx.fn = "input"
  /\ Normalized(tx.text)
  /\ tx' = Call("sliceTextFromPercent", tx.text, p,
                 sliceStart(tx.text, Percent(p)),
                 sliceTextFrom(tx.text, Percent(p)))
  /\ UNCHANGED <<wk, ui, c2w, w2c, h>>

\* getWordBoundaries(tx.text)
BoundariesCall ==
  /\ tx.fn = "input"
  /\ tx' = Call("getWordBoundaries", tx.text, 0, 0, getWordBoundaries(tx.text))
  /\ UNCHANGED <<wk, ui, c2w, w2c, h>>

\* splitTextSmart(tx.text, size); the worker passes no empty text (line 86)
SplitCall(size) ==
  /\ tx.fn = "input"
  /\ tx.text # <<>>
  /\ tx' = Call("splitTextSmart", tx.text, size, 0,
                 splitTextSmart(tx.text, size))
  /\ UNCHANGED <<wk, ui, c2w, w2c, h>>

NextText ==
  \/ \E p \in 0..100 : SliceCall(p)
  \/ BoundariesCall
  \/ \E size \in 1..MaxTextLen : SplitCall(size)

SpecText == InitText /\ [][NextText]_vars

(* -------------------------------- claims ------------------------------- *)

GeneratingTasks == {r \in DOMAIN wk.tasks : wk.tasks[r].pc = "generating"}

\* C1: at most one call of generate is in progress at any time, and a request
\* does not start (chunking, generating or waiting) before the request chained
\* before it has settled, also while that one is being stopped.
C1_SerializedGeneration ==
  /\ Cardinality(GeneratingTasks) <= 1
  /\ \A r \in Running(wk) : r = 1 \/ Settled(wk.tasks[r - 1])

\* A request is queued behind a request that is generating and being stopped.
C1_Witness ==
  \E r \in DOMAIN wk.tasks :
    /\ r > 1
    /\ wk.tasks[r].pc = "queued"
    /\ wk.tasks[r - 1].pc = "generating"
    /\ wk.shouldStop

\* C4: a request the worker runs and whose generate never throws has posted
\* no complete while it runs and exactly one once its task has settled, and no
\* audio of it is posted after its complete.
C4_ExactlyOneComplete ==
  \A r \in DOMAIN wk.tasks :
    r \notin (h.failed \cup Skipped(wk)) =>
      /\ r \in DOMAIN h.completes
      /\ h.completes[r] = (IF wk.tasks[r].pc = "settled" THEN 1 ELSE 0)
      /\ r \notin h.late

\* A request was stopped after it had published audio, and has settled.
C4_Witness ==
  \E r \in h.stopped :
    /\ wk.tasks[r].pc = "settled"
    /\ wk.tasks[r].i > 1
    /\ wk.tasks[r].i <= wk.tasks[r].n
    /\ r \notin h.failed

\* C5: bufferQueueSize stays in [0, MAX_QUEUE_SIZE], and no generate call is
\* in progress (so none begins and no unit is published) while it is
\* MAX_QUEUE_SIZE.
C5_DepthBounded ==
  /\ wk.bufferQueueSize \in 0..MAX_QUEUE_SIZE
  /\ GeneratingTasks # {} => wk.bufferQueueSize < MAX_QUEUE_SIZE

\* The producer is suspended behind MAX_QUEUE_SIZE unacknowledged units.
C5_Witness ==
  \E r \in DOMAIN wk.tasks :
    /\ wk.tasks[r].pc = "waiting"
    /\ wk.tasks[r].i = MAX_QUEUE_SIZE + 1
    /\ wk.bufferQueueSize = MAX_QUEUE_SIZE

\* C7: no audio is posted for a request after a stop was processed while it
\* ran, and a stop handler returns only when the request that ran at the stop
\* has settled.
C7_NoAudioAfterStop ==
  /\ h.postStop = {}
  /\ \A r \in h.stopReturned : Settled(wk.tasks[r])

\* A stop was processed during a generate call; the request has settled
\* through the checkpoint after generate and the stop handler has returned.
C7_Witness ==
  \E r \in h.stopReturned :
    /\ r \in h.stopped
    /\ wk.tasks[r].pc = "settled"
    /\ h.completes[r] = 1

\* C8 (as claimed): a request that was queued behind a running request when a
\* stop was processed never calls generate and never publishes audio.
C8_StopCancelsPending ==
  \A r \in h.pendingAtStop :
    /\ wk.tasks[r].pc # "generating"
    /\ wk.tasks[r].i <= 1

UnitsHeld == {ui.queueRef[j] : j \in DOMAIN ui.queueRef}
               \cup {l.unit : l \in ui.loops}

\* C2 (as claimed): every unit the controller holds for playback was
\* synthesized for the session that was current when it was delivered.
C2_NoStaleAudio == \A u \in UnitsHeld : u.req = u.sess

\* C3 (as claimed): a session started by a seek in Streaming or Paused keeps
\* isStreaming true until its own complete or error, or a user pause/stop
\* (stated for the runs in which no generate call throws, so that the only
\* messages that can end a session are complete messages).
C3_SeekStaysStreaming == (h.live /\ h.failed = {}) => ui.isStreaming

AudioInTransit ==
  Cardinality({j \in DOMAIN w2c : w2c[j].status = "stream_audio_data"})

\* The units published and neither played to the end nor discarded (in
\* transit, pending, or in a source not yet ended or stopped) number at most
\* MAX_QUEUE_SIZE.
OutstandingBounded ==
  AudioInTransit + Len(ui.queueRef)
    + Cardinality({l \in ui.loops : l.st \in {"resuming", "rendering"}})
    <= MAX_QUEUE_SIZE

\* C6 (as claimed, already for the units that have reached the controller):
\* the published units that are pending in the queue or in a source not yet
\* ended or stopped number at most MAX_QUEUE_SIZE.
C6_ChannelBounded ==
  Len(ui.queueRef)
    + Cardinality({l \in ui.loops : l.st \in {"resuming", "rendering"}})
    <= MAX_QUEUE_SIZE

\* C9 (as claimed): at most one playback loop is active, so at most one unit
\* is being rendered at a time.
C9_SingleRender ==
  Cardinality({l \in ui.loops : l.st = "rendering"}) <= 1

\* C10: units begin playing in the order of their delivery: each unit whose
\* playback begins was delivered after the unit whose playback began before
\* it (so none is overtaken and none is played twice).
C10_FifoPlayback == h.lastStarted = 0 \/ h.prevStarted < h.lastStarted

\* A second unit began playing while a third was pending behind it.
C10_Witness ==
  /\ h.prevStarted > 0
  /\ h.lastStarted > h.prevStarted
  /\ ui.queueRef # <<>>

\* C11 (as claimed): in every state of a session whose own complete message
\* has not been received (and that no pause or stop has ended), the streaming
\* progress is below 100.
C11_ProgressBelow100 == h.open => ui.streamingProgress < 100

\* C12 (as claimed): processedChunks <= totalChunks in every reachable state
\* of the controller.
C12_ProcessedAtMostTotal == ui.processedChunks <= ui.totalChunks

\* C13 (as claimed): within a session (from a play or seek until the next
\* play, seek or stop) no step other than a gesture of the user decreases the
\* published character offset readChars.
C13_ReadCharsMonotone ==
  [][(h.inSession /\ h'.ops = h.ops) => ui'.readChars >= ui.readChars]_vars

\* Numbers without leading zero digits: a < b, |a - b| and b * k.
RECURSIVE LessLimbs(_, _)
LessLimbs(a, b) ==
  IF Len(a) # Len(b) THEN Len(a) < Len(b)
  ELSE IF a = <<>> THEN FALSE
  ELSE IF Head(a) # Head(b) THEN Head(a) < Head(b)
  ELSE LessLimbs(Tail(a), Tail(b))

DistLimbs(a, b) == IF LessLimbs(a, b) THEN SubLimbs(b, a) ELSE SubLimbs(a, b)

MulLimbs(b, k) == Strip(MulLoop(b, k, Len(b), 0, <<>>))

AtMost(a, cap) == IF LessLimbs(cap, a) THEN cap ELSE a

\* The effective progress P of a pause pressed at base offset p.base and
\* streaming progress p.progress, min(100, base + progress * (1 - base / 100)),
\* without rounding: 100 * P as a multiple of 2^u, for u <= 0 at most the
\* exponent of the base.  100 * P is (100 - progress) * base + 100 * progress.
EffectiveScaled(p, u) ==
  AtMost(AddLimbs(MulLimbs(ShiftLeft(p.base.m, p.base.e - u), 100 - p.progress),
                  ShiftLeft(Limbs(100 * p.progress), -u)),
         ShiftLeft(Limbs(100 * 100), -u))

\* The number `percent` is P up to the rounding of the arithmetic: they
\* differ by at most 2^-40; u <= 0 is at most the exponents of percent and of
\* the base.
WithinRounding(percent, p, u) ==
  ~LessLimbs(ShiftLeft(Limbs(100), Max(0, -40 - u)),
             ShiftLeft(DistLimbs(MulLimbs(ShiftLeft(percent.m, percent.e - u),
                                          100),
                                 EffectiveScaled(p, u)),
                       Max(0, 40 + u)))

IsEffectiveProgress(percent, p) ==
  WithinRounding(percent, p, Min(0, Min(percent.e, p.base.e)))

\* start >= floor(P / 100 * length), that is (start + 1) * 100 > P * length
StartsFrom(start, length, p, u) ==
  LessLimbs(MulLimbs(EffectiveScaled(p, u), length),
            ShiftLeft(Limbs((start + 1) * 100 * 100), -u))

StartsAtOrAfter(start, length, p) ==
  StartsFrom(start, length, p, Min(0, p.base.e))

\* C14 (as claimed): from a pause pressed in Streaming until the next gesture
\* that starts or resets a session, the base offset is the effective progress
\* P at the press (up to the rounding of the arithmetic); and when the next
\* such gesture is a play, the session it starts has base offset P and the
\* text it sends begins at or after character floor(P / 100 * length) of the
\* text being read.
C14_PauseResume ==
  /\ h.pausedAt.set => IsEffectiveProgress(ui.streamBaseOffset, h.pausedAt)
  /\ (h.resumed.set /\ h.resumed.paused.set) =>
       /\ IsEffectiveProgress(ui.streamBaseOffset, h.resumed.paused)
       /\ StartsAtOrAfter(h.resumed.start, h.resumed.length, h.resumed.paused)

\* C15 (as claimed): from the moment pause is pressed until the next play,
\* seek or stop, readChars keeps the value it had at the pause.
C15_PauseKeepsReadChars == h.paused => ui.readChars = h.pausedAt.chars

\* C16 (as claimed): from a stop until the next play or seek the controller
\* is Idle with base offset 0, character offset 0 and streaming progress 0.
C16_StopResets ==
  h.idle =>
    /\ ~ui.isStreaming
    /\ ui.streamBaseOffset = Percent(0)
    /\ ui.readChars = 0
    /\ ui.streamingProgress = 0

\* C17 (as claimed): no call of stopAudio fails, whatever the state of the
\* controller: the handler of the last gesture (each gesture that gets as far
\* as the pipeline calls stopAudio) did not throw.
C17_StopAudioSafe == ~h.gesture.threw

\* C18: a play or seek at 100%, or at any offset while the text being read is
\* empty, posts nothing to the worker (no generation request, so no chunks)
\* and sets the status message to the nothing-to-stream message.
C18_NothingToStream ==
  [][(h'.ops # h.ops /\ h'.gesture.kind \in {"play", "seek"}
        /\ (h'.gesture.percent = Percent(100) \/ TextOf(ui.currentText) = <<>>)) =>
       (c2w' = c2w /\ ui'.statusMessage = "No text to stream yet.")]_vars

\* The slider was released at 100% during a session, and nothing was sent.
C18_Witness ==
  /\ h.gesture.kind = "seek"
  /\ h.gesture.percent = Percent(100)
  /\ h.session = 1
  /\ ui.isStreaming
  /\ ui.statusMessage = "No text to stream yet."

\* A step in which the controller handles an error message of the worker.
ErrorMessageStep ==
  /\ w2c # <<>>
  /\ Head(w2c).status = "error"
  /\ w2c' = Tail(w2c)

\* A step in which starting the pipeline is rejected, or in which the
\* controller handles an error message or an error event of the worker.
FailureStep ==
  \/ /\ h'.ops # h.ops
     /\ ui'.statusMessage \in {"No TTS worker available.", "No text to stream yet."}
  \/ ErrorMessageStep
  \/ /\ h'.env # h.env
     /\ ui'.statusMessage = "Something went wrong while streaming."

\* C19 (as claimed): after every failure, whatever the state before it, the
\* controller's isStreaming is false.
C19_FailureEndsStreaming == [][FailureStep => ~ui'.isStreaming]_vars

TextsIn(q) == Cardinality({j \in DOMAIN q : q[j].type = "text"})

\* C20: handling an error message of the worker leaves isStreaming false and
\* the error text in the status message, posts nothing to the worker and
\* leaves the pending queue and the playback loops as they are; no step but a
\* gesture of the user posts a generation request; and whenever units are
\* pending a playback loop is there to play them.
C20_WorkerError ==
  [][/\ ErrorMessageStep =>
          /\ ~ui'.isStreaming
          /\ ui'.statusMessage = "Error: "
          /\ c2w' = c2w
          /\ ui'.queueRef = ui.queueRef
          /\ ui'.loops = ui.loops
          /\ ui'.playingRef = ui.playingRef
     /\ h'.ops = h.ops => TextsIn(c2w') <= TextsIn(c2w)
     /\ ui'.queueRef # <<>> => (ui'.playingRef /\ ui'.loops # {})]_vars

\* An error message was handled while a unit was pending behind the one in
\* the source.
C20_Witness ==
  /\ ui.statusMessage = "Error: "
  /\ ~ui.isStreaming
  /\ ui.queueRef # <<>>
  /\ ui.loops # {}

\* C21 (as claimed): the text sliceTextFromPercent returns for a normalized
\* source text, when it is not empty, begins at the start of a word of the
\* source text: at index 0 or right after a whitespace character.
C21_SliceAtWordStart ==
  (tx.fn = "sliceTextFromPercent" /\ tx.out # <<>>) =>
    /\ tx.out = SubSeq(tx.text, tx.start + 1, Len(tx.text))
    /\ tx.start = 0 \/ IsSpace(tx.text[tx.start])

\* The positions in the log of the messages of request r.
LogOf(r) == {j \in DOMAIN h.log : h.log[j].req = r}

\* C22: the messages the worker has posted come request by request; those of
\* a request the worker runs begin with its chunk_count, carrying the number
\* of its chunks, followed at once by audio for chunks 1, 2, ... in order; a
\* terminal message (complete, or error when generate threw) comes after all
\* its audio and is the last message of a settled request; and a request that
\* was neither stopped nor failed has posted audio for all its chunks when it
\* settles.  A request that is not run (skipped) has an error message only.
C22_MessageOrder ==
  /\ \A j, k \in DOMAIN h.log : j < k => h.log[j].req <= h.log[k].req
  /\ \A r \in DOMAIN wk.tasks :
       LET at == LogOf(r)
           first == CHOOSE j \in at : \A k \in at : j <= k
           last == CHOOSE j \in at : \A k \in at : j >= k
           audio == {j \in at : h.log[j].status = "stream_audio_data"}
       IN /\ at = {} <=> wk.tasks[r].pc = "queued"
          /\ r \in Skipped(wk) =>
               at # {} /\ \A j \in at : h.log[j].status = "error" /\ j = first
          /\ (at # {} /\ r \notin Skipped(wk)) =>
               /\ h.log[first].status = "chunk_count"
               /\ h.log[first].k = wk.tasks[r].n
               /\ \A j \in at \ {first} : h.log[j].status # "chunk_count"
               /\ \A j \in audio : h.log[j].k = j - first /\ h.log[j].k <= wk.tasks[r].n
               /\ wk.tasks[r].pc = "settled" =>
                    /\ h.log[last].status =
                         (IF r \in h.failed THEN "error" ELSE "complete")
                    /\ r \notin (h.stopped \cup h.failed) =>
                         Cardinality(audio) = wk.tasks[r].n
               /\ wk.tasks[r].pc # "settled" =>
                    \A j \in at : h.log[j].status \notin {"complete", "error"}

\* A request was cancelled after it had posted audio, and the messages of the
\* next request follow its complete.
C22_Witness ==
  \E r \in h.stopped :
    /\ \E j \in LogOf(r) : h.log[j].status = "stream_audio_data"
    /\ \E j \in LogOf(r) : h.log[j].status = "complete"
    /\ r \notin h.failed
    /\ \E j \in LogOf(r + 1) : h.log[j].status = "stream_audio_data"

RECURSIVE Concat(_)
Concat(chunks) ==
  IF chunks = <<>> THEN <<>> ELSE Head(chunks) \o Concat(Tail(chunks))

\* The lengths of the proper prefixes of the chunk list: its chunk boundaries.
ChunkEnds(chunks) ==
  {Len(Concat(SubSeq(chunks, 1, j))) : j \in 1..(Len(chunks) - 1)}

\* C23: the chunks of a text, concatenated in order, are the text; every
\* chunk is non-empty; no chunk boundary has a non-whitespace character on
\* both sides; and a text without punctuation and whitespace is one chunk.
C23_LosslessSplit ==
  tx.fn = "splitTextSmart" =>
    /\ Concat(tx.out) = tx.text
    /\ \A j \in DOMAIN tx.out : tx.out[j] # <<>>
    /\ \A b \in ChunkEnds(tx.out) :
         IsSpace(tx.text[b]) \/ IsSpace(tx.text[b + 1])
    /\ (\A j \in DOMAIN tx.text : tx.text[j] = "a") => tx.out = <<tx.text>>

\* A text longer than the target size was split into three chunks.
C23_Witness ==
  /\ tx.fn = "splitTextSmart"
  /\ Len(tx.text) > tx.arg
  /\ Len(tx.out) > 2

\* C24 (as claimed, for the first session of a run, started by play and not
\* stopped, paused, superseded or failed): no unit the controller accepted is
\* lost; each is pending in the queue, in a source, or has been played.
C24_NoUnitDropped ==
  (h.ops = 1 /\ h.gesture.kind = "play" /\ ~h.gesture.threw) =>
    h.delivered = Len(ui.queueRef) + Cardinality(ui.loops) + ui.processedChunks

\* A message that releases a waiting producer: a stop or an acknowledgement.
Releases(m) == m.type \in {"stop", "buffer_processed"}

\* C25 (as claimed, with every generate call returning): a producer waiting
\* on a full channel has a release ahead of it without a further gesture of
\* the user: a stop or an acknowledgement on its way to the worker, a unit the
\* controller holds (whose end is acknowledged), or a message of the worker
\* the controller has not handled yet.
C25_ProducerReleased ==
  \A r \in DOMAIN wk.tasks :
    (wk.tasks[r].pc = "waiting" /\ BufferFull(wk) /\ ~wk.shouldStop) =>
      \/ \E j \in DOMAIN c2w : Releases(c2w[j])
      \/ ui.loops # {}
      \/ ui.queueRef # <<>>
      \/ w2c # <<>>

\* The positions in the log of the messages of request r with a status.
LogAt(r, status) ==
  {j \in DOMAIN h.log : h.log[j].req = r /\ h.log[j].status = status}

\* C26 (as claimed): a request whose generate call threw has posted exactly
\* one error and no complete, and the request chained on it has started: all
\* its messages, its chunk count first, come after that error.
C26_FailureIsolated ==
  \A r \in h.failed :
    /\ Cardinality(LogAt(r, "error")) = 1
    /\ LogAt(r, "complete") = {}
    /\ (r + 1) \in DOMAIN wk.tasks =>
         /\ wk.tasks[r + 1].pc # "queued"
         /\ LogAt(r + 1, "chunk_count") # {}
         /\ \A j \in DOMAIN h.log : \A e \in LogAt(r, "error") :
              h.log[j].req = r + 1 => e < j

\* C27 (as claimed, for the first session of a run): once the complete of the
\* session has set the streaming progress to 100, no step before the next
\* gesture changes it.
C27_ProgressStays100 ==
  [][(h.ops = 1 /\ h'.ops = 1 /\ ui.streamingProgress = 100)
       => ui'.streamingProgress = 100]_vars

\* C28 (as claimed): a play at offset 0 as the first gesture of a run (from
\* Idle) sends the source text from its first character on.
C28_PlayFromStart ==
  (/\ h.ops = 1
   /\ h.gesture = Gesture("play", Percent(0), FALSE)
   /\ h.resumed.set) => h.resumed.start = 0

\* C29 (as claimed, the part about getWordBoundaries): for every text the
\* last boundary is the length of the text, and there are at least two
\* boundaries (one word for the timing); an empty or whitespace-only text has
\* the boundaries 0 and its length.
C29_LastBoundaryIsLength ==
  tx.fn = "getWordBoundaries" =>
    /\ Len(tx.out) >= 2
    /\ tx.out[Len(tx.out)] = Len(tx.text)
    /\ (\A j \in DOMAIN tx.text : IsSpace(tx.text[j])) =>
         tx.out = <<0, Len(tx.text)>>

====
